---- MODULE Spec2Model ----
(***************************************************************************)
(* Model of src/scraper.py: the EniScraper class (progress log, record     *)
(* parsing, deduplicated append, bounded page-load retry, pagination and   *)
(* session release) together with the process life cycle (interruption and *)
(* restart) that its resume capability is about.                           *)
(*                                                                         *)
(* Modelling decisions:                                                    *)
(*  - output.jsonl is a sequence of lines. A line written by json.dumps is *)
(*    [kind |-> "object", fields |-> <the dict>]; the other kinds are text *)
(*    the program never writes itself but load_existing_progress reads.    *)
(*  - a write that succeeds puts its whole line behind the file's end; a   *)
(*    write that raises IOError leaves nothing or, on a disk that tears    *)
(*    writes (SpecDisk), a part of its text, which the next write joins.   *)
(*    An interruption does not tear a write.                               *)
(*  - the browser (rows of a page, next-page control, faults) is the       *)
(*    environment: its answers are nondeterministic choices.               *)
(*  - time is counted in units of 2^(1-FloatBits) seconds, the half-ulp of *)
(*    a float with a FloatBits-bit significand in [2,4).                   *)
(***************************************************************************)
EXTENDS Integers, Sequences, FiniteSets, TLC

\* ---------------------------------------------------------------- bounds
\* rows a fetched page holds at most
MaxRows == 2
\* page counter values explored (the code's loop has no bound)
MaxPages == 3
\* processes started one after the other on the same output file
MaxRuns == 2
\* cells a table row holds at most
MaxCells == 8
\* lines of an output file found on disk by SpecLoad
MaxLogLines == 3
\* lines of the output file that torn writes can leave or spoil
MaxTorn == 1
\* significand bits of the model's floating-point numbers (53 in CPython)
FloatBits == 2

\* ------------------------------------------------------- program constants
MAX_RETRIES == 3

\* business names (first cells) the source shows; "" is an empty first cell
Names == {"", "A"}

\* Python's None as a dict value / set element, and as parse_row's result
NoneKey == "<None>"
None == [is_none |-> TRUE]

VARIABLES
    pc,                 \* position of the process in __main__ / run()
    log,                \* output.jsonl: sequence of lines
    torn,               \* the file ends with text that no newline follows
    scraped_ids,        \* self.scraped_ids
    driver,             \* self.driver is set (session acquired)
    page,               \* local `page` of run()
    source,             \* how the source answers a click on its next-page control
    disk,               \* how the disk fails a write: "sound" writes nothing, "tearing" may write a part
    src_page,           \* the page the source shows (1 = first page of results)
    attempts,           \* iterations of the retry loop done for this page
    rows_total,         \* len(rows), the rows found by the fetch of this page
    rows_left,          \* rows of the fetched page not yet processed
    row,                \* the <tr> element being processed
    record,             \* result of parse_row for the current row
    new_records_count,  \* local `new_records_count` of run()
    page_appends,       \* lines appended to the file from the rows of this page
    next_ctl,           \* what the lookup of the next-page control gave
    elapsed,            \* time slept in polite_sleep / the retry loop and waited in
                        \* wait.until since the last next-page click
    paces,              \* polite_sleep calls since the last next-page click
    exit,               \* how run() left its loop
    released,           \* calls of driver.quit() in this process
    io_failed,          \* names whose append raised IOError in this process
    saved,              \* names whose line some process wrote without an
                        \* error of the write
    run                 \* number of the process (1 = first start)

vars == <<pc, log, torn, scraped_ids, driver, page, src_page, attempts, rows_total,
          rows_left, row, record, next_ctl, new_records_count, page_appends,
          elapsed, paces, exit, released, io_failed, saved, run, source, disk>>

\* ------------------------------------------------------------ parse_row
\* text of the cells after the first one, by position
CellTexts == <<"ID1", "Active", "2024-01-01", "John", "123 St", "j@x.com",
               "x7", "x8", "x9">>

\* the <td> texts of a row with first cell nm and n cells
Cells(nm, n) == [i \in 1..n |-> IF i = 1 THEN nm ELSE CellTexts[i - 1]]

\* a <tr> element: what the script of parse_row does on it (returns the cell
\* texts, or raises, e.g. on a stale element)
RowOf(c) == [script |-> "returns", cells |-> c]
BrokenRow == [script |-> "raises", cells |-> <<>>]
\* no row is being processed
NoRow == [script |-> "none", cells |-> <<>>]

\* the rows the source can show: every name alone in its row, the name "A"
\* with every cell count, a row without cells, and a row the script fails on
Rows == {RowOf(Cells(nm, 1)) : nm \in Names}
            \cup {RowOf(Cells("A", n)) : n \in 1..MaxCells}
            \cup {RowOf(<<>>), BrokenRow}

RECURSIVE Join(_)
\* " | ".join(s)
Join(s) ==
    IF s = <<>> THEN ""
    ELSE IF Len(s) = 1 THEN s[1]
    ELSE s[1] \o " | " \o Join(Tail(s))

\* cells[k:] of Python (k is 0-based)
Slice(cells, k) == SubSeq(cells, k + 1, Len(cells))

\* the mapping of parse_row with `len(cells) > 7` for the agent columns
MapCellsStrict(cells) ==
    IF Len(cells) < 1 THEN None
    ELSE LET data ==
                 [business_name |-> cells[1],
                  registration_id |-> IF Len(cells) > 1 THEN cells[2] ELSE "N/A",
                  status |-> IF Len(cells) > 2 THEN cells[3] ELSE "N/A",
                  filing_date |-> IF Len(cells) > 3 THEN cells[4] ELSE "N/A",
                  agent_details |-> IF Len(cells) > 4 THEN Join(Slice(cells, 4))
                                    ELSE "N/A"]
         IN  IF Len(cells) > 7
             THEN [agent_name |-> cells[5], agent_address |-> cells[6],
                   agent_email |-> cells[7]] @@ data
             ELSE data

\* the mapping of parse_row, for the cell texts the script returned
MapCells(cells) ==
    IF Len(cells) < 1 THEN None
    ELSE LET data ==
                 [business_name |-> cells[1],
                  registration_id |-> IF Len(cells) > 1 THEN cells[2] ELSE "N/A",
                  status |-> IF Len(cells) > 2 THEN cells[3] ELSE "N/A",
                  filing_date |-> IF Len(cells) > 3 THEN cells[4] ELSE "N/A",
                  agent_details |-> IF Len(cells) > 4 THEN Join(Slice(cells, 4))
                                    ELSE "N/A"]
         IN  IF Len(cells) >= 7
             THEN [agent_name |-> cells[5], agent_address |-> cells[6],
                   agent_email |-> cells[7]] @@ data
             ELSE data

\* parse_row(row_element): an exception of the script is caught and gives None
parse_row(row_element) ==
    IF row_element.script = "raises" THEN None ELSE MapCells(row_element.cells)

\* ------------------------------------------------- output file (JSON lines)
\* json.dumps(record) + "\n": one line holding a JSON object
json_dumps(rec) == [kind |-> "object", fields |-> rec]

\* dict.get(key): the value, or None when the key is absent
DictGet(d, key) == IF key \in DOMAIN d THEN d[key] ELSE NoneKey

\* lines load_existing_progress can meet that json.dumps(record) never makes:
\* an empty line, text that is no JSON, a JSON value that is no object
\* (123, "x", [1], null), an object without business_name, bytes that are no
\* UTF-8 text
BlankLine == [kind |-> "blank"]
GarbageLine == [kind |-> "garbage"]
BadUtf8Line == [kind |-> "bad_utf8"]
ScalarLine == [kind |-> "scalar"]
NoKeyLine == [kind |-> "object", fields |-> [registration_id |-> "ID1"]]

RECURSIVE LoadLines(_, _)
\* the `for line in f` loop of load_existing_progress, ids collected so far
LoadLines(lines, ids) ==
    IF lines = <<>> THEN ids
    ELSE LET line == Head(lines) IN
         IF line.kind = "blank" THEN LoadLines(Tail(lines), ids)
         ELSE IF line.kind = "garbage" THEN LoadLines(Tail(lines), ids)
         ELSE IF line.kind = "scalar" THEN ids
         ELSE LoadLines(Tail(lines),
                        ids \cup {DictGet(line.fields, "business_name")})

\* the number of lines `for line in f` hands out: open(..., encoding='utf-8')
\* decodes the file a buffer (8192 bytes) at a time, so bytes that are no UTF-8
\* raise UnicodeDecodeError before any line of their buffer is handed out; the
\* files of the model fit in one buffer
ReadAhead(file) ==
    IF \E i \in 1..Len(file) : file[i] = BadUtf8Line THEN 0 ELSE Len(file)

\* load_existing_progress that reads another key than save_record writes
load_other_key(file, n) ==
    IF n = 0 THEN {} ELSE {NoneKey}

\* load_existing_progress: the keys recovered from the first n lines of the
\* output file (an absent file is the empty sequence); the `except Exception`
\* around the loop returns what was collected when the read fails
load_existing_progress(file, n) == LoadLines(SubSeq(file, 1, n), {})

\* ---------------------------------------------------------------- pacing
RECURSIVE Pow2(_)
Pow2(n) == IF n = 0 THEN 1 ELSE 2 * Pow2(n - 1)

\* s seconds in time units (one unit is 2^(1-FloatBits) s)
Seconds(s) == s * Pow2(FloatBits - 1)

\* random.random() returns k / 2^FloatBits for these k
RandomDraws == 0..(Pow2(FloatBits) - 1)

\* the float nearest to x units for x in [2 s, 4 s]: floats are the even unit
\* counts there, ties go to the even significand
RoundToFloat(x) ==
    IF x % 2 = 0 THEN x
    ELSE IF ((x - 1) \div 2) % 2 = 0 THEN x - 1
    ELSE x + 1

\* random.uniform without its lower end: (b - a) * random()
uniformNoBase(a, b, k) == ((b - a) * k) \div Pow2(FloatBits)

\* random.uniform(a, b) = a + (b - a) * random(), for the draw k
uniform(a, b, k) == RoundToFloat(a + ((b - a) * k) \div Pow2(FloatBits))

\* WebDriverWait(self.driver, 30) and time.sleep(2) of the retry loop
WaitTimeout == Seconds(30)
RetrySleep == Seconds(2)

\* elapsed time is counted up to this value
ElapsedCap == Seconds(4) + 1
AddTime(t, d) == IF t + d > ElapsedCap THEN ElapsedCap ELSE t + d
\* the time since the last click after d more units; on page 1 there was no
\* click yet
SinceClick(p, t, d) == IF p > 1 THEN AddTime(t, d) ELSE t
\* the times after which a wait.until that succeeds can return: it blocks
\* until the rows are present, for less than WaitTimeout (a time beyond
\* ElapsedCap counts like ElapsedCap)
WaitTimes == 0..(IF WaitTimeout - 1 > ElapsedCap THEN ElapsedCap ELSE WaitTimeout - 1)

\* ------------------------------------------------------------ the process
\* the memory of a process that has not run __init__ yet (or is gone)
NoProcess ==
    /\ scraped_ids' = {}
    /\ driver' = FALSE
    /\ page' = 0
    /\ src_page' = 0
    /\ attempts' = 0
    /\ rows_total' = 0
    /\ rows_left' = 0
    /\ row' = NoRow
    /\ record' = None
    /\ new_records_count' = 0
    /\ page_appends' = 0
    /\ elapsed' = 0
    /\ paces' = 0
    /\ next_ctl' = "unknown"
    /\ io_failed' = {}

\* control leaves the loop of run(): its locals for the current page and row
\* are not read again
LeaveLoop(how) ==
    /\ pc' = "finally"
    /\ exit' = how
    /\ attempts' = 0
    /\ rows_total' = 0
    /\ rows_left' = 0
    /\ row' = NoRow
    /\ record' = None
    /\ new_records_count' = 0
    /\ page_appends' = 0
    /\ elapsed' = 0
    /\ paces' = 0
    /\ next_ctl' = "unknown"

\* first start on a machine without output.jsonl
Init ==
    /\ pc = "start"
    /\ log = <<>>
    /\ torn = FALSE
    /\ scraped_ids = {}
    /\ driver = FALSE
    /\ page = 0
    /\ src_page = 0
    /\ attempts = 0
    /\ rows_total = 0
    /\ rows_left = 0
    /\ row = NoRow
    /\ record = None
    /\ new_records_count = 0
    /\ page_appends = 0
    /\ elapsed = 0
    /\ paces = 0
    /\ next_ctl = "unknown"
    /\ exit = "none"
    /\ released = 0
    /\ io_failed = {}
    /\ saved = {}
    /\ run = 1
    /\ source = "steady"
    /\ disk = "sound"

\* EniScraper(): __init__ sets driver to None and loads the progress
Construct ==
    /\ pc = "start"
    /\ scraped_ids' = load_existing_progress(log, ReadAhead(log))
    /\ driver' = FALSE
    /\ pc' = "setup"
    /\ UNCHANGED <<log, torn, page, src_page, attempts, rows_total, rows_left, row, record, new_records_count, page_appends,
                   elapsed, paces, next_ctl, exit, released, io_failed, saved, run, source, disk>>

\* a run() that starts its loop right after setup_driver, without the gate
SetupDriverSkipsGate ==
    /\ pc = "setup"
    /\ \E started \in BOOLEAN :
          IF started
          THEN /\ driver' = TRUE
               /\ pc' = "fetching"
               /\ page' = 1
               /\ src_page' = 1
               /\ exit' = exit
          ELSE /\ driver' = driver
               /\ pc' = "aborted"
               /\ exit' = "driver_fault"
               /\ UNCHANGED <<page, src_page>>
    /\ UNCHANGED <<log, torn, scraped_ids, attempts, rows_total, rows_left, row, record,
                   new_records_count, page_appends, elapsed, paces, next_ctl, released, io_failed, saved, run, source, disk>>

\* run(): setup_driver, outside the try block; a failure is logged as critical
\* and raised out of run()
SetupDriver ==
    /\ pc = "setup"
    /\ \E started \in BOOLEAN :
          IF started
          THEN /\ driver' = TRUE
               /\ pc' = "gate"
               /\ exit' = exit
          ELSE /\ driver' = driver
               /\ pc' = "aborted"
               /\ exit' = "driver_fault"
    /\ UNCHANGED <<log, torn, scraped_ids, page, src_page, attempts, rows_total, rows_left, row, record,
                   new_records_count, page_appends, elapsed, paces, next_ctl, released, io_failed, saved, run, source, disk>>

\* run(): human_bypass_gate, then `page = 1` and the first pass of the loop;
\* an exception of the gate (other than the caught TimeoutException of the
\* search box) goes to `except Exception as main_e`
HumanBypassGate ==
    /\ pc = "gate"
    /\ \E confirmed \in BOOLEAN :
          IF confirmed
          THEN /\ page' = 1
               /\ src_page' = 1
               /\ attempts' = 0
               /\ pc' = "fetching"
               /\ UNCHANGED <<rows_total, rows_left, row, record, new_records_count, page_appends, elapsed,
                              paces, next_ctl, exit>>
          ELSE /\ LeaveLoop("gate_fault")
               /\ UNCHANGED <<page, src_page>>
    /\ UNCHANGED <<log, torn, scraped_ids, driver, released, io_failed, saved, run, source, disk>>

\* the retry loop with one iteration too many
AttemptsLeftOneMore(a) == a <= MAX_RETRIES

\* `for attempt in range(MAX_RETRIES)`: another iteration is left
AttemptsLeft(a) == a < MAX_RETRIES

\* what one iteration of the retry loop can meet: the wait times out, the wait
\* succeeds but find_elements gives no rows, another exception is raised, or
\* rows are found; a wait that succeeds has taken one of WaitTimes
FetchResults == {"timeout", "empty", "fault", "rows"}

\* one iteration of the retry loop
FetchAttempt ==
    /\ pc = "fetching"
    /\ AttemptsLeft(attempts)
    /\ \E result \in FetchResults :
          CASE result = "timeout" ->
                  /\ attempts' = attempts + 1
                  /\ elapsed' = SinceClick(page, elapsed, WaitTimeout + RetrySleep)
                  /\ UNCHANGED <<pc, rows_total, rows_left, row, record, new_records_count, page_appends,
                                 paces, next_ctl, exit>>
            [] result = "empty" ->
                  /\ attempts' = attempts + 1
                  /\ \E waited \in WaitTimes :
                        elapsed' = SinceClick(page, elapsed, waited)
                  /\ UNCHANGED <<pc, rows_total, rows_left, row, record, new_records_count, page_appends,
                                 paces, next_ctl, exit>>
            [] result = "fault" ->
                  /\ LeaveLoop("loop_fault")
            [] OTHER ->
                  /\ rows_total' \in 1..MaxRows
                  /\ rows_left' = rows_total'
                  /\ new_records_count' = 0
                  /\ page_appends' = 0
                  /\ pc' = "extracting"
                  /\ \E waited \in WaitTimes :
                        elapsed' = SinceClick(page, elapsed, waited)
                  /\ UNCHANGED <<attempts, row, record, paces, next_ctl, exit>>
    /\ UNCHANGED <<log, torn, scraped_ids, driver, page, src_page, released, io_failed, saved, run, source, disk>>

\* a fetch that starts its retry loop again instead of giving up
FetchExhaustedRetries ==
    /\ pc = "fetching"
    /\ ~AttemptsLeft(attempts)
    /\ attempts' = 0
    /\ UNCHANGED <<pc, log, torn, scraped_ids, driver, page, src_page, rows_total, rows_left, row,
                   record, next_ctl, new_records_count, page_appends, elapsed, paces, exit,
                   released, io_failed, saved, run, source, disk>>

\* the retry loop ran out with rows still empty: `if not rows: break`
FetchExhausted ==
    /\ pc = "fetching"
    /\ ~AttemptsLeft(attempts)
    /\ LeaveLoop("no_rows")
    /\ UNCHANGED <<log, torn, scraped_ids, driver, page, src_page, released, io_failed, saved, run, source, disk>>

\* `for row in rows: record = self.parse_row(row)`
ParseRow ==
    /\ pc = "extracting"
    /\ rows_left > 0
    /\ \E r \in Rows :
          /\ row' = r
          /\ record' = parse_row(r)
    /\ pc' = "parsed"
    /\ UNCHANGED <<log, torn, scraped_ids, driver, page, src_page, attempts, rows_total, rows_left,
                   new_records_count, page_appends, elapsed, paces, next_ctl, exit, released, io_failed, saved, run, source, disk>>

\* the row is finished without a record: on to the next row
NextRow ==
    /\ rows_total' = rows_total
    /\ rows_left' = rows_left - 1
    /\ row' = NoRow
    /\ record' = None
    /\ pc' = "extracting"

\* save_record returned: `new_records_count += 1`, on to the next row
Saved ==
    /\ new_records_count' = new_records_count + 1
    /\ NextRow

\* an extraction loop that a row without record ends (`break`)
SkipRowBreaks ==
    /\ pc = "parsed"
    /\ record = None
    /\ rows_total' = rows_total
    /\ rows_left' = 0
    /\ row' = NoRow
    /\ record' = None
    /\ pc' = "extracting"
    /\ UNCHANGED <<log, torn, scraped_ids, driver, page, src_page, attempts, new_records_count, page_appends,
                   elapsed, paces, next_ctl, exit, released, io_failed, saved, run, source, disk>>

\* `if record:` a row without record is skipped
SkipRow ==
    /\ pc = "parsed"
    /\ record = None
    /\ NextRow
    /\ UNCHANGED <<log, torn, scraped_ids, driver, page, src_page, attempts, new_records_count, page_appends,
                   elapsed, paces, next_ctl, exit, released, io_failed, saved, run, source, disk>>

\* `if record: self.save_record(record)`: the call
CallSave ==
    /\ pc = "parsed"
    /\ record # None
    /\ pc' = "saving"
    /\ UNCHANGED <<log, torn, scraped_ids, driver, page, src_page, attempts, rows_total, rows_left, row, record,
                   new_records_count, page_appends, elapsed, paces, next_ctl, exit, released, io_failed, saved, run, source, disk>>

\* save_record: `record["business_name"] in self.scraped_ids`
IsDuplicate(rec, ids) == rec.business_name \in ids

\* save_record, the duplicate check: return, or go on to the append
SaveCheck ==
    /\ pc = "saving"
    /\ IF IsDuplicate(record, scraped_ids)
       THEN /\ Saved
            /\ UNCHANGED <<log, torn, scraped_ids, driver, page, src_page, attempts, page_appends,
                           elapsed, paces, next_ctl, exit, released, io_failed, saved, run,
                           source, disk>>
       ELSE /\ pc' = "appending"
            /\ UNCHANGED <<log, torn, scraped_ids, driver, page, src_page, attempts, rows_total, rows_left, row,
                           record, new_records_count, page_appends, elapsed, paces, next_ctl, exit, released,
                           io_failed, saved, run, source, disk>>

\* what `f.write(json.dumps(record) + "\n")` and the flush at the end of the
\* `with` block put into the file: the whole line, or, when IOError is raised,
\* nothing, a part of the JSON text, or the JSON text without its newline
Writes == {"line", "nothing", "part", "text"}

\* the lines of a file that a torn write has left or spoilt
TornLines(file, t) ==
    {i \in 1..Len(file) : file[i] = GarbageLine \/ (t /\ i = Len(file))}

\* a sound disk fails a write with nothing written; a tearing disk can leave
\* a part of the text, while fewer than MaxTorn lines are torn or behind a text
\* that is torn already
CanWrite(file, t, what) ==
    what \in {"part", "text"} =>
        /\ disk = "tearing"
        /\ t \/ Cardinality(TornLines(file, t)) < MaxTorn

\* the file after `what` of the line of rec was put behind it (mode 'a'):
\* behind a file whose last text has no newline (t) the new text joins that
\* text, and the two are one line that is no JSON
PutBehind(file, t, what, rec) ==
    IF what = "nothing" THEN file
    ELSE IF t THEN [file EXCEPT ![Len(file)] = GarbageLine]
    ELSE IF what = "part" THEN Append(file, GarbageLine)
    ELSE Append(file, json_dumps(rec))

\* save_record, the append: the line is written, or IOError is raised (with
\* nothing or a part of the text written), logged, and save_record returns
AppendLine ==
    /\ pc = "appending"
    /\ scraped_ids' = scraped_ids
    /\ \E what \in Writes :
          /\ CanWrite(log, torn, what)
          /\ log' = PutBehind(log, torn, what, record)
          /\ torn' = (IF what = "nothing" THEN torn ELSE what # "line")
          /\ saved' = (IF what = "line" THEN saved \cup {record.business_name}
                       ELSE saved)
          /\ page_appends' = page_appends + (Len(log') - Len(log))
          /\ IF what = "line"
             THEN /\ pc' = "written"
                  /\ UNCHANGED <<rows_total, rows_left, row, record, new_records_count,
                                 io_failed>>
             ELSE /\ io_failed' = io_failed \cup {record.business_name}
                  /\ Saved
    /\ UNCHANGED <<driver, page, src_page, attempts, elapsed, paces, next_ctl, exit, released,
                   run, source, disk>>

\* save_record, after the file was closed: `self.scraped_ids.add(...)`
AddKey ==
    /\ pc = "written"
    /\ scraped_ids' = scraped_ids \cup {record.business_name}
    /\ Saved
    /\ UNCHANGED <<log, torn, driver, page, src_page, attempts, page_appends, elapsed, paces,
                   next_ctl, exit, released, io_failed, saved, run, source, disk>>

\* `if new_records_count == 0:` the page is reported with a warning
WarnsNoNew(count) == count = 0

\* an extraction loop whose page without new records ends the run
ExtractionDoneStopsOnNoNew ==
    /\ pc = "extracting"
    /\ rows_left = 0
    /\ IF WarnsNoNew(new_records_count)
       THEN /\ LeaveLoop("no_rows")
       ELSE /\ pc' = "paginating"
            /\ rows_total' = 0
            /\ new_records_count' = 0
            /\ page_appends' = 0
            /\ UNCHANGED <<attempts, rows_left, row, record, elapsed, paces, next_ctl, exit>>
    /\ UNCHANGED <<log, torn, scraped_ids, driver, page, src_page, released, io_failed, saved, run,
                   source, disk>>

\* the extraction loop is over: the warning is logged when WarnsNoNew, and in
\* both cases control goes on to the pagination; `rows` and
\* `new_records_count` are not read again before the next fetch sets them
ExtractionDone ==
    /\ pc = "extracting"
    /\ rows_left = 0
    /\ pc' = "paginating"
    /\ rows_total' = 0
    /\ new_records_count' = 0
    /\ page_appends' = 0
    /\ UNCHANGED <<log, torn, scraped_ids, driver, page, src_page, attempts, rows_left, row, record,
                   elapsed, paces, next_ctl, exit, released, io_failed, saved, run, source, disk>>

\* what the lookup of the next-page control can give: no button, a disabled
\* button, an enabled button, or an exception of find_elements / is_enabled
NextControls == {"absent", "disabled", "enabled", "fault"}

\* the pagination block: `next_btns = find_elements(...)` and
\* `next_btns and next_btns[0].is_enabled()`; the source shows an enabled
\* button on its pages before MaxPages only
FindNext ==
    /\ pc = "paginating"
    /\ \E ctl \in NextControls :
          /\ ctl = "enabled" => page < MaxPages
          /\ IF ctl = "fault"
             THEN /\ LeaveLoop("pagination_fault")
                  /\ next_ctl' = "unknown"
             ELSE /\ next_ctl' = ctl
                  /\ pc' = "next_found"
                  /\ UNCHANGED <<attempts, rows_total, rows_left, row, record, new_records_count, page_appends,
                                 elapsed, paces, exit>>
    /\ UNCHANGED <<log, torn, scraped_ids, driver, page, src_page, released, io_failed, saved, run, source, disk>>

\* the sources: a steady one moves to its next page on every click of the
\* enabled control, a sticky one moves or stays on its page
Sources == {"steady", "sticky"}

\* what the click script does to the source, which the engine does not look at
ClickMoves(p) == IF source = "sticky" THEN {p, p + 1} ELSE {p + 1}

\* the pagination block treating every button it finds as enabled
ClickNextIgnoringDisabled ==
    /\ pc = "next_found"
    /\ next_ctl' = "unknown"
    /\ IF next_ctl \in {"enabled", "disabled"}
       THEN \E clicked \in BOOLEAN :
               /\ src_page' \in ClickMoves(src_page)
               /\ IF clicked
                  THEN /\ pc' = "clicked"
                       /\ page' = page
                       /\ elapsed' = 0
                       /\ paces' = 0
                       /\ UNCHANGED <<attempts, rows_total, rows_left, row, record,
                                      new_records_count, page_appends, exit>>
                  ELSE /\ LeaveLoop("pagination_fault")
                       /\ page' = page
       ELSE /\ LeaveLoop("no_next")
            /\ UNCHANGED <<page, src_page>>
    /\ UNCHANGED <<log, torn, scraped_ids, driver, released, io_failed, saved, run, source, disk>>

\* the pagination block without its own `except Exception`: a click that
\* raises reaches the handler of run()
ClickNextUncaught ==
    /\ pc = "next_found"
    /\ next_ctl' = "unknown"
    /\ IF next_ctl = "enabled"
       THEN \E clicked \in BOOLEAN :
               /\ src_page' \in ClickMoves(src_page)
               /\ IF clicked
                  THEN /\ pc' = "clicked"
                       /\ page' = page
                       /\ elapsed' = 0
                       /\ paces' = 0
                       /\ UNCHANGED <<attempts, rows_total, rows_left, row, record,
                                      new_records_count, page_appends, exit>>
                  ELSE /\ LeaveLoop("loop_fault")
                       /\ page' = page
       ELSE /\ LeaveLoop("no_next")
            /\ UNCHANGED <<page, src_page>>
    /\ UNCHANGED <<log, torn, scraped_ids, driver, released, io_failed, saved, run, source, disk>>

\* the pagination block with `page += 1` placed before the click: a click
\* that raises leaves the counter incremented
ClickNextCountsFirst ==
    /\ pc = "next_found"
    /\ next_ctl' = "unknown"
    /\ IF next_ctl = "enabled"
       THEN \E clicked \in BOOLEAN :
               /\ src_page' \in ClickMoves(src_page)
               /\ IF clicked
                  THEN /\ pc' = "clicked"
                       /\ page' = page + 1
                       /\ elapsed' = 0
                       /\ paces' = 0
                       /\ UNCHANGED <<attempts, rows_total, rows_left, row, record,
                                      new_records_count, page_appends, exit>>
                  ELSE /\ LeaveLoop("pagination_fault")
                       /\ page' = page + 1
       ELSE /\ LeaveLoop("no_next")
            /\ UNCHANGED <<page, src_page>>
    /\ UNCHANGED <<log, torn, scraped_ids, driver, released, io_failed, saved, run, source, disk>>

\* the pagination block, after the lookup: the click script of an enabled
\* button, which returns or raises and in both cases may have moved the
\* source; or the break
ClickNext ==
    /\ pc = "next_found"
    /\ next_ctl' = "unknown"
    /\ IF next_ctl = "enabled"
       THEN \E clicked \in BOOLEAN :
               /\ src_page' \in ClickMoves(src_page)
               /\ IF clicked
                  THEN /\ pc' = "clicked"
                       /\ page' = page
                       /\ elapsed' = 0
                       /\ paces' = 0
                       /\ UNCHANGED <<attempts, rows_total, rows_left, row, record,
                                      new_records_count, page_appends, exit>>
                  ELSE /\ LeaveLoop("pagination_fault")
                       /\ page' = page
       ELSE /\ LeaveLoop("no_next")
            /\ UNCHANGED <<page, src_page>>
    /\ UNCHANGED <<log, torn, scraped_ids, driver, released, io_failed, saved, run, source, disk>>

\* the pagination block without `page += 1`
CountPageNoCount ==
    /\ pc = "clicked"
    /\ page' = page
    /\ pc' = "pacing"
    /\ UNCHANGED <<log, torn, scraped_ids, driver, src_page, attempts, rows_total, rows_left, row, record,
                   next_ctl, new_records_count, page_appends, elapsed, paces, exit, released,
                   io_failed, saved, run, source, disk>>

\* the pagination block, after the click script returned: `page += 1`
CountPage ==
    /\ pc = "clicked"
    /\ page' = page + 1
    /\ pc' = "pacing"
    /\ UNCHANGED <<log, torn, scraped_ids, driver, src_page, attempts, rows_total, rows_left, row, record,
                   next_ctl, new_records_count, page_appends, elapsed, paces, exit, released,
                   io_failed, saved, run, source, disk>>

\* polite_sleep, then the next pass of `while True`
PoliteSleep ==
    /\ pc = "pacing"
    /\ \E k \in RandomDraws :
          elapsed' = AddTime(elapsed, uniform(Seconds(2), Seconds(4), k))
    /\ paces' = paces + 1
    /\ attempts' = 0
    /\ pc' = "fetching"
    /\ UNCHANGED <<log, torn, scraped_ids, driver, page, src_page, rows_total, rows_left, row, record,
                   next_ctl, new_records_count, page_appends, exit, released, io_failed, saved,
                   run, source, disk>>

\* a finally clause that does not quit the driver
CloseSessionNoQuit ==
    /\ pc = "finally"
    /\ pc' = "closed"
    /\ UNCHANGED <<log, torn, scraped_ids, driver, page, src_page, attempts, rows_total, rows_left, row, record,
                   next_ctl, new_records_count, page_appends, elapsed, paces, exit, released,
                   io_failed, saved, run, source, disk>>

\* `finally: if self.driver: self.driver.quit()`
CloseSession ==
    /\ pc = "finally"
    /\ released' = IF driver THEN released + 1 ELSE released
    /\ pc' = "closed"
    /\ UNCHANGED <<log, torn, scraped_ids, driver, page, src_page, attempts, rows_total, rows_left, row, record,
                   new_records_count, page_appends, elapsed, paces, next_ctl, exit, io_failed, saved, run, source, disk>>

\* the ways run() leaves its loop by `break` (an info or error log; the spec's
\* DONE) and by an exception logged as critical (the spec's FAILED)
DoneExits == {"no_rows", "no_next", "pagination_fault"}
FailedExits == {"driver_fault", "gate_fault", "loop_fault"}

\* positions inside the try block of run()
InTry == {"gate", "fetching", "extracting", "parsed", "saving", "appending",
          "written", "paginating", "next_found", "clicked", "pacing"}
\* positions at which the process is over
Over == {"closed", "aborted", "dead"}

\* the run is interrupted: the process is killed (nothing more runs), or the
\* user presses Ctrl-C (KeyboardInterrupt is no Exception: inside the try block
\* only the finally clause runs, elsewhere the process ends)
Interrupt ==
    /\ pc \notin Over
    /\ \E how \in {"kill", "keyboard"} :
          IF how = "keyboard" /\ pc \in InTry
          THEN /\ LeaveLoop("interrupted")
               /\ UNCHANGED <<scraped_ids, driver, page, src_page, released, io_failed>>
          ELSE /\ pc' = "dead"
               /\ exit' = "interrupted"
               /\ released' = released
               /\ NoProcess
    /\ UNCHANGED <<log, torn, saved, run, source, disk>>

\* the script is started again on the same output file
Restart ==
    /\ pc \in Over
    /\ run < MaxRuns
    /\ run' = run + 1
    /\ pc' = "start"
    /\ exit' = "none"
    /\ released' = 0
    /\ NoProcess
    /\ UNCHANGED <<log, torn, saved, source, disk>>

Next ==
    \/ Construct
    \/ SetupDriver
    \/ HumanBypassGate
    \/ FetchAttempt
    \/ FetchExhausted
    \/ ParseRow
    \/ SkipRow
    \/ CallSave
    \/ SaveCheck
    \/ AppendLine
    \/ AddKey
    \/ ExtractionDone
    \/ FindNext
    \/ ClickNext
    \/ CountPage
    \/ PoliteSleep
    \/ CloseSession
    \/ Interrupt
    \/ Restart

Spec == Init /\ [][Next]_vars

\* ------------------------------------------------ runs on a tearing disk
\* first start on a machine without output.jsonl whose disk can tear a write
InitDisk ==
    /\ disk = "tearing"
    /\ source = "steady"
    /\ pc = "start"
    /\ log = <<>>
    /\ torn = FALSE
    /\ scraped_ids = {}
    /\ driver = FALSE
    /\ page = 0
    /\ src_page = 0
    /\ attempts = 0
    /\ rows_total = 0
    /\ rows_left = 0
    /\ row = NoRow
    /\ record = None
    /\ new_records_count = 0
    /\ page_appends = 0
    /\ elapsed = 0
    /\ paces = 0
    /\ next_ctl = "unknown"
    /\ exit = "none"
    /\ released = 0
    /\ io_failed = {}
    /\ saved = {}
    /\ run = 1

SpecDisk == InitDisk /\ [][Next]_vars

\* ------------------------------------------------ one run on any source
\* first start on a machine without output.jsonl, on a steady or sticky source
InitSource ==
    /\ source \in Sources
    /\ disk = "sound"
    /\ pc = "start"
    /\ log = <<>>
    /\ torn = FALSE
    /\ scraped_ids = {}
    /\ driver = FALSE
    /\ page = 0
    /\ src_page = 0
    /\ attempts = 0
    /\ rows_total = 0
    /\ rows_left = 0
    /\ row = NoRow
    /\ record = None
    /\ new_records_count = 0
    /\ page_appends = 0
    /\ elapsed = 0
    /\ paces = 0
    /\ next_ctl = "unknown"
    /\ exit = "none"
    /\ released = 0
    /\ io_failed = {}
    /\ saved = {}
    /\ run = 1

\* the steps of the process itself: main() down to the end of run()
Step ==
    \/ Construct
    \/ SetupDriver
    \/ HumanBypassGate
    \/ FetchAttempt
    \/ FetchExhausted
    \/ ParseRow
    \/ SkipRow
    \/ CallSave
    \/ SaveCheck
    \/ AppendLine
    \/ AddKey
    \/ ExtractionDone
    \/ FindNext
    \/ ClickNext
    \/ CountPage
    \/ PoliteSleep
    \/ CloseSession

\* one start of the script, which can be interrupted
NextRun ==
    \/ Step
    \/ Interrupt

SpecSource == InitSource /\ [][NextRun]_vars

\* the process is one thread whose calls all return (page waits and sleeps
\* are timed, the operator answers the gate): while it is not interrupted its
\* next step is taken
SpecLive == InitSource /\ [][NextRun]_vars /\ WF_vars(Step)

\* ------------------------------------------- the output file found on disk
\* the lines an output file found on disk is made of
FileLines == {json_dumps(MapCells(Cells(nm, 1))) : nm \in Names}
                \cup {BlankLine, GarbageLine, BadUtf8Line, ScalarLine, NoKeyLine}

\* the output files of at most MaxLogLines lines
LogFiles == UNION {[1..n -> FileLines] : n \in 0..MaxLogLines}

\* start on a machine with any output file
InitLoad ==
    /\ pc = "start"
    /\ log \in LogFiles
    /\ torn = FALSE
    /\ scraped_ids = {}
    /\ driver = FALSE
    /\ page = 0
    /\ src_page = 0
    /\ attempts = 0
    /\ rows_total = 0
    /\ rows_left = 0
    /\ row = NoRow
    /\ record = None
    /\ new_records_count = 0
    /\ page_appends = 0
    /\ elapsed = 0
    /\ paces = 0
    /\ next_ctl = "unknown"
    /\ exit = "none"
    /\ released = 0
    /\ io_failed = {}
    /\ saved = {}
    /\ run = 1
    /\ source = "steady"
    /\ disk = "sound"

NextLoad == Construct

SpecLoad == InitLoad /\ [][NextLoad]_vars

\* ======================================================================
\* Properties
\* ======================================================================
\* a line that holds a record: a JSON object with a business_name
IsRecordLine(l) == l.kind = "object" /\ "business_name" \in DOMAIN l.fields
\* the positions of the record lines of a file
RecordLines(file) == {i \in 1..Len(file) : IsRecordLine(file[i])}
\* the business names a file holds
LogNames(file) == {file[i].fields.business_name : i \in RecordLines(file)}
\* no two record lines of the file carry the same business_name
NoTwoLinesSameName(file) ==
    \A i, j \in RecordLines(file) :
        i # j => file[i].fields.business_name # file[j].fields.business_name

\* C1 -- Resume without duplication: whatever point a run was interrupted at
\* (also between the write of a line and the add of its key), no process, the
\* same or a restarted one, appends the line of a record whose line was
\* written before; and the file never holds two record lines with the same
\* business_name.
C1_ResumeWithoutDuplication ==
    /\ [][(pc = "appending" /\ pc' = "written") =>
             record.business_name \notin saved]_vars
    /\ []NoTwoLinesSameName(log)

\* C2 -- Dedup invariant: once the progress is loaded, the number of lines of
\* the output file equals the number of distinct business names it holds, the
\* lines found at load included.
C2_DedupInvariant ==
    pc # "start" =>
        /\ Len(log) = Cardinality(LogNames(log))
        /\ Cardinality(RecordLines(log)) = Len(log)

\* C3 -- Resume idempotence: right after the load of a file of N records the
\* key set has exactly N keys, the names of the file's records; and
\* save_record of a record whose key is in the set leaves the file and the
\* key set unchanged (a second save_record of a record is a no-op).
C3_ResumeIdempotence ==
    /\ [](pc = "setup" =>
             /\ Cardinality(scraped_ids) = Cardinality(RecordLines(log))
             /\ scraped_ids = LogNames(log))
    /\ [][(pc = "saving" /\ record.business_name \in scraped_ids
            /\ pc' \notin {"finally", "dead"}) =>
             /\ log' = log
             /\ torn' = torn
             /\ scraped_ids' = scraped_ids
             /\ pc' = "extracting"]_vars

\* the restarted process, which loaded the one record of a file that also
\* holds a line spoilt by a torn write, is asked to save that record, with no
\* save done yet
C3_Witness ==
    /\ run > 1
    /\ pc = "saving"
    /\ page = 1
    /\ new_records_count = 0
    /\ Len(log) = 2
    /\ Cardinality(RecordLines(log)) = 1
    /\ scraped_ids = LogNames(log)
    /\ record.business_name \in scraped_ids

\* C4 -- Append side-effect ordering: every key of the set has a line in the
\* file; an append that raises IOError leaves the key set unchanged and the
\* run goes on to the next row; a later save_record of a record whose append
\* failed goes to the append again.
C4_AppendOrdering ==
    /\ [](scraped_ids \subseteq LogNames(log))
    /\ [][(pc = "appending" /\ pc' = "extracting") =>
             /\ scraped_ids' = scraped_ids
             /\ record.business_name \in io_failed'
             /\ rows_left' = rows_left - 1]_vars
    /\ [][(pc = "saving" /\ record.business_name \in io_failed
            /\ record.business_name \notin scraped_ids
            /\ pc' \notin {"finally", "dead"}) =>
             pc' = "appending"]_vars

\* the keys of all the lines that hold a JSON object (None for an object
\* without business_name)
ObjectKeys(file) ==
    {DictGet(file[i].fields, "business_name") :
        i \in {j \in 1..Len(file) : file[j].kind = "object"}}

\* C5 -- Malformed-line tolerance: for any file in which unusable lines are
\* interleaved with record lines, the loaded key set is the set of the
\* business names of all the record lines, those after an unusable line
\* included.
C5_MalformedLineTolerance ==
    pc = "setup" => scraped_ids = ObjectKeys(log)

\* C6 -- Bounded retry: the retry loop makes at most MAX_RETRIES attempts for a
\* page; an attempt that finds rows ends the loop and its rows are the ones
\* extracted; when all attempts timed out or found no rows the loop ends with
\* no rows, which leaves run() by `break` (DONE), not by an exception.
C6_BoundedRetry ==
    /\ [](attempts <= MAX_RETRIES)
    /\ [][(pc = "fetching" /\ pc' = "extracting") =>
             /\ attempts < MAX_RETRIES
             /\ attempts' = attempts
             /\ rows_left' >= 1]_vars
    /\ [][(pc = "fetching" /\ attempts = MAX_RETRIES /\ pc' # "dead"
            /\ exit' # "interrupted") =>
             /\ pc' = "finally"
             /\ exit' = "no_rows"
             /\ exit' \in DoneExits
             /\ exit' \notin FailedExits]_vars

\* the three attempts for the second page found nothing and the run ended
C6_Witness ==
    /\ pc = "finally"
    /\ exit = "no_rows"
    /\ page = 2

\* C7 -- Termination triggers: a fetch that ends without rows takes the engine
\* to DONE, and so does, after the extraction of a page with rows, a next-page
\* control that is absent or disabled; after either, this run fetches nothing,
\* saves nothing and activates no page.
C7_TerminationTriggers ==
    [][/\ (pc = "fetching" /\ ~(attempts < MAX_RETRIES) /\ pc' # "dead"
            /\ exit' # "interrupted") =>
              (pc' = "finally" /\ exit' = "no_rows")
       /\ (pc = "next_found" /\ next_ctl \in {"absent", "disabled"}
            /\ pc' # "dead" /\ exit' # "interrupted") =>
              (pc' = "finally" /\ exit' = "no_next" /\ page' = page)
       /\ (exit \in {"no_rows", "no_next"} /\ run' = run) =>
              /\ pc' \in {"finally", "closed", "dead"}
              /\ log' = log
              /\ scraped_ids' \subseteq scraped_ids
              /\ page' \in {page, 0}
              /\ attempts' = 0
              /\ rows_left' = 0]_vars

\* a run that saved a record has ended because the next-page control was
\* absent or disabled
C7_Witness ==
    /\ pc = "closed"
    /\ exit = "no_next"
    /\ Len(log) >= 1
    /\ scraped_ids # {}

\* C8 -- Guaranteed session release: whenever run() has ended after the
\* session was acquired, driver.quit() was called exactly once, not before
\* the loop was left; and after the release this run fetches nothing, saves
\* nothing and activates no page.
C8_SessionRelease ==
    /\ [](/\ released <= 1
          /\ (pc = "closed" => (driver /\ released = 1))
          /\ (pc = "aborted" => (~driver /\ released = 0))
          /\ (pc \in InTry \cup {"finally"} => (driver /\ released = 0)))
    /\ [][(released >= 1 /\ run' = run) =>
             UNCHANGED <<pc, log, scraped_ids, page, attempts, rows_left>>]_vars

\* the session was released after an exception of the main loop that
\* nothing but the top-level handler caught, with a record saved before
C8_Witness ==
    /\ pc = "closed"
    /\ exit = "loop_fault"
    /\ released = 1
    /\ Len(log) >= 1

\* C9 -- RecordCodec mapping: for the n cell texts of a row, parse_row gives
\* None when n = 0; otherwise business_name = cells[0], the next three fields
\* are cells[1..3] or "N/A", agent_details is cells[4..] joined with " | " or
\* "N/A" when n <= 4, and agent_name, agent_address, agent_email are present
\* exactly when n >= 7, with the values of cells[4], cells[5], cells[6].
C9_RecordCodecMapping ==
    (pc = "parsed" /\ row.script = "returns") =>
        LET cells == row.cells
            n == Len(cells)
            base == {"business_name", "registration_id", "status", "filing_date",
                     "agent_details"}
            agent == {"agent_name", "agent_address", "agent_email"}
        IN  IF n = 0 THEN record = None
            ELSE /\ record # None
                 /\ DOMAIN record = (IF n >= 7 THEN base \cup agent ELSE base)
                 /\ record.business_name = cells[1]
                 /\ record.registration_id = (IF n >= 2 THEN cells[2] ELSE "N/A")
                 /\ record.status = (IF n >= 3 THEN cells[3] ELSE "N/A")
                 /\ record.filing_date = (IF n >= 4 THEN cells[4] ELSE "N/A")
                 /\ n <= 4 => record.agent_details = "N/A"
                 /\ n = 5 => record.agent_details = cells[5]
                 /\ n = 6 => record.agent_details = cells[5] \o " | " \o cells[6]
                 /\ n >= 7 =>
                       /\ record.agent_name = cells[5]
                       /\ record.agent_address = cells[6]
                       /\ record.agent_email = cells[7]
                 /\ n = 7 => record.agent_details = "John | 123 St | j@x.com"
                 /\ n = 8 => record.agent_details = "John | 123 St | j@x.com | x7"
                 /\ n > 8 =>
                       record.agent_details =
                           "John | 123 St | j@x.com | x7 | " \o Join(SubSeq(cells, 9, n))

\* a row of seven cells was parsed
C9_Witness ==
    /\ pc = "parsed"
    /\ row.script = "returns"
    /\ Len(row.cells) = 7
    /\ record # None
    /\ record.agent_email = "j@x.com"

\* positions of the loop of run() from the fetch to the pagination
AfterPacing == {"fetching", "extracting", "parsed", "saving", "appending",
                "written", "paginating", "next_found"}

\* C10 as claimed -- Pacing between pages: every activation is followed by
\* exactly one pacing delay before the next fetch attempt, the delay is in
\* [2.0 s, 4.0 s), and so is the time between successive activations.
C10_PacingHalfOpen ==
    /\ (pc \in {"clicked", "pacing"} => paces = 0)
    /\ (pc \in AfterPacing /\ page > 1) => paces = 1
    /\ (pc = "fetching" /\ page > 1 /\ attempts = 0) =>
          (elapsed >= Seconds(2) /\ elapsed < Seconds(4))
    /\ (pc = "next_found" /\ next_ctl = "enabled" /\ page > 1) =>
          (elapsed >= Seconds(2) /\ elapsed < Seconds(4))

\* C10 as amended -- every activation is followed by exactly one pacing delay
\* before the next fetch attempt; the delay is in the closed range
\* [2.0 s, 4.0 s]; the time between successive activations is at least 2.0 s
\* (the waits and sleeps of the fetch come on top of the delay).
C10_Pacing ==
    /\ (pc \in {"clicked", "pacing"} => (paces = 0 /\ elapsed = 0))
    /\ (pc \in AfterPacing /\ page > 1) => (paces = 1 /\ elapsed >= Seconds(2))
    /\ (pc = "fetching" /\ page > 1 /\ attempts = 0) => elapsed <= Seconds(4)

\* the engine is about to activate the control a second time, after a pacing
\* delay and a fetch that waited for the page
C10_Witness ==
    /\ pc = "next_found"
    /\ next_ctl = "enabled"
    /\ page = 2
    /\ paces = 1
    /\ elapsed > Seconds(4)

\* ---------------------------------------------------------------- C11
\* C11 as stated -- FAILED is reached only from a failure before the first
\* fetch: a run that ended in FAILED never started fetching (its page counter
\* was never set).
C11_FailedOnlyBeforeFetching == exit \in FailedExits => page = 0

\* C11 as amended -- FAILED is entered only by a failure of setup_driver, of
\* the gate, or by an exception of the fetch step other than TimeoutException;
\* no failure while extracting, saving or paginating leads to FAILED; and
\* after FAILED was entered the process appends nothing, processes no row and
\* only closes the session.
C11_FailedOrigin ==
    /\ [][(exit' \in FailedExits /\ exit \notin FailedExits) =>
             pc \in {"setup", "gate", "fetching"}]_vars
    /\ [][(exit \in FailedExits /\ run' = run) =>
             /\ log' = log
             /\ pc' \in {"closed", "dead"}]_vars
    /\ [](exit \in FailedExits => pc \in {"finally", "closed", "aborted"})

\* the fetch of the second page raised an exception that is no timeout
C11_Witness ==
    /\ pc = "finally"
    /\ exit = "loop_fault"
    /\ page = 2
    /\ Len(log) >= 1
\* ---------------------------------------------------------------- C12
\* C12 -- Pagination-fault absorption: a failure of the lookup of the
\* next-page control or of its click ends the loop as a normal end (DONE),
\* never as FAILED; the records appended so far stay in the file and the key
\* set, the page counter is not incremented by the failed step, and the run
\* only closes its session afterwards.
C12_PaginationFaultAbsorbed ==
    /\ [][(pc \in {"paginating", "next_found"}) => exit' \notin FailedExits]_vars
    /\ [][(exit' = "pagination_fault" /\ exit # "pagination_fault") =>
             /\ pc \in {"paginating", "next_found"}
             /\ pc' = "finally"
             /\ page' = page
             /\ log' = log
             /\ scraped_ids' = scraped_ids]_vars
    /\ [][(exit = "pagination_fault" /\ run' = run) =>
             /\ log' = log
             /\ pc' \in {"closed", "dead"}]_vars

\* the step to the third page failed after records were appended; the counter
\* still shows the second page
C12_Witness ==
    /\ pc = "finally"
    /\ exit = "pagination_fault"
    /\ page = 2
    /\ Len(log) >= 1
    /\ scraped_ids = LogNames(log)
\* ---------------------------------------------------------------- C13
\* positions of the extraction loop of one page
Extraction == {"extracting", "parsed", "saving", "appending", "written"}

\* C13 -- No-progress is not termination: when the rows of a fetched page are
\* all processed the engine goes on to the lookup of the next-page control,
\* whatever the count of new records (a page without new records only warns);
\* and the extraction of a page never ends the loop by itself (only an
\* interruption of the process does).
C13_NoProgressIsNotTermination ==
    /\ [][(pc = "extracting" /\ rows_left = 0 /\ pc' # "dead") =>
             \/ pc' = "paginating" /\ exit' = exit /\ page' = page
             \/ pc' = "finally" /\ exit' = "interrupted"]_vars
    /\ [][(pc \in Extraction /\ pc' = "finally") => exit' = "interrupted"]_vars
    /\ [][(pc' = "paginating") =>
             pc = "extracting" /\ rows_left = 0 /\ rows_total >= 1]_vars

\* the first page gave no record at all (nothing appended, no append failed)
\* and the engine has moved on to the second page
C13_Witness ==
    /\ run = 1
    /\ pc = "fetching"
    /\ page = 2
    /\ log = <<>>
    /\ io_failed = {}
\* ---------------------------------------------------------------- C14
\* C14 -- Meaning of new_records_count: between two rows of a page, and when
\* the page's rows are all processed, new_records_count is the number of
\* records newly appended to the file from this page (duplicates and failed
\* appends are not counted); so the no-new-records warning is logged exactly
\* for the pages that appended nothing.
C14_NewRecordsCount ==
    pc = "extracting" =>
        /\ new_records_count = page_appends
        /\ (rows_left = 0 => (WarnsNoNew(new_records_count) <=> page_appends = 0))
\* ---------------------------------------------------------------- C15
\* C15 as stated -- the page counter equals 1 plus the number of page advances
\* that took place in the source: wherever the loop stands, but for the moment
\* between a click and its `page += 1`, it is the page the source shows.
C15_PageCountsSourceAdvances ==
    (pc \in InTry \ {"gate", "clicked"}) => page = src_page

\* C15 as amended -- the page counter is set to 1 when the gate is passed, is
\* never decremented, and is incremented by exactly one in the step after the
\* click script on an enabled next-page control returned, and in no other
\* step (an interruption between the two leaves the counter one click behind);
\* the engine does not look whether the source moved, so the page the source
\* shows is at most the counter, or one more between a click and its count.
C15_PageCounter ==
    /\ [][(page' # page /\ run' = run /\ pc' # "dead") =>
             \/ pc = "gate" /\ page = 0 /\ page' = 1
             \/ pc = "clicked" /\ pc' = "pacing" /\ page' = page + 1]_vars
    /\ [][(pc' = "clicked") =>
             pc = "next_found" /\ next_ctl = "enabled" /\ page' = page]_vars
    /\ [][(pc = "clicked" /\ pc' \notin {"finally", "dead"}) =>
             pc' = "pacing" /\ page' = page + 1]_vars
    /\ [][(pc = "gate" /\ pc' = "fetching") => page' = 1]_vars
    /\ []((pc \in InTry \ {"gate", "clicked"}) =>
             (1 <= src_page /\ src_page <= page))
    /\ []((pc \in {"clicked", "finally", "closed"} /\ page >= 1) =>
             (1 <= src_page /\ src_page <= page + 1))

\* two clicks returned and the counter shows page 3, the source still shows
\* its first page
C15_Witness ==
    /\ pc = "fetching"
    /\ page = 3
    /\ src_page = 1
\* ---------------------------------------------------------------- C16
\* C16 -- Record validity: every record line of the output file has a
\* non-empty business_name, and the empty name is never a key of the
\* processed set (a row whose first cell is empty is neither persisted nor
\* added to the keys).
C16_NonEmptyName ==
    /\ \A i \in RecordLines(log) : log[i].fields.business_name # ""
    /\ "" \notin scraped_ids
\* ---------------------------------------------------------------- C17
\* C17 -- Batch atomicity per page: a row that does not decode (no cells, or
\* the cell script raises) is skipped without ending the batch: nothing is
\* written, the run does not end, and the rows after it are decoded and
\* passed to save_record one by one, in the order of the page.
C17_MalformedRowSkipped ==
    /\ [][(pc = "parsed" /\ record = None /\ pc' \notin {"finally", "dead"}) =>
             /\ pc' = "extracting"
             /\ rows_left' = rows_left - 1
             /\ log' = log
             /\ scraped_ids' = scraped_ids
             /\ exit' = exit]_vars
    /\ [][(pc = "extracting" /\ rows_left > 0 /\ pc' \notin {"finally", "dead"}) =>
             /\ pc' = "parsed"
             /\ rows_left' = rows_left
             /\ record' = parse_row(row')]_vars
    /\ [][(pc = "parsed" /\ record # None /\ pc' \notin {"finally", "dead"}) =>
             /\ pc' = "saving"
             /\ record' = record]_vars
    /\ [][(pc \in Extraction /\ pc' \in Extraction /\ rows_left' # rows_left) =>
             rows_left' = rows_left - 1]_vars

\* the first row of a page of two gave no record, the second row is decoded
\* and passed to save_record
C17_Witness ==
    /\ pc = "saving"
    /\ rows_total = 2
    /\ rows_left = 1
    /\ new_records_count = 0
    /\ record # None
\* ---------------------------------------------------------------- C18
\* positions of the loop of run(): fetch, extraction, save, pagination
InLoop == InTry \ {"gate"}

\* C18 -- Gate ordering: before the operator's confirmation nothing of the
\* loop has run (no fetch attempt, no row, no append, no next-page lookup, no
\* page counter); the loop is entered only by the step in which the gate
\* returned; and when the gate fails the run goes to its shutdown without a
\* fetch and without touching the file.
C18_GateOrdering ==
    /\ [](pc \in {"start", "setup", "gate"} =>
             /\ page = 0
             /\ attempts = 0
             /\ rows_total = 0
             /\ record = None
             /\ next_ctl = "unknown")
    /\ [][(pc \in {"start", "setup", "gate"} /\ run' = run) => log' = log]_vars
    /\ [][(pc' \in InLoop /\ pc \notin InLoop) =>
             pc = "gate" /\ pc' = "fetching" /\ page' = 1 /\ attempts' = 0]_vars
    /\ [](exit = "gate_fault" => (page = 0 /\ pc \in {"finally", "closed"}))
    /\ [][(exit' = "gate_fault" /\ run' = run) => log' = log]_vars

\* the gate failed: the session is closed and no page was fetched
C18_Witness ==
    /\ pc = "closed"
    /\ exit = "gate_fault"
    /\ released = 1
    /\ page = 0
\* ---------------------------------------------------------------- C19
\* C19 -- Termination: once the gate is passed, on a source that shows an
\* enabled next-page control only finitely often (fewer than MaxPages times
\* here), run() reaches its end with the session released, unless the process
\* is killed; the loop has no bound of its own: it is left only through an
\* empty fetch, a missing or disabled control, a fault or an interruption, and
\* a click that returned is followed by the next pass whether or not the
\* source moved.
C19_Termination ==
    /\ (pc = "fetching") ~> ((pc = "closed" /\ released = 1) \/ pc = "dead")
    /\ [][(pc \in InLoop /\ pc' = "finally") =>
             exit' \in {"no_rows", "no_next", "pagination_fault", "loop_fault",
                         "interrupted"}]_vars
    /\ [][(exit' = "no_next" /\ exit # "no_next") =>
             pc = "next_found" /\ next_ctl \in {"absent", "disabled"}]_vars
    /\ [][(pc = "next_found" /\ next_ctl = "enabled" /\ pc' \notin {"finally", "dead"}) =>
             pc' = "clicked"]_vars
    /\ [][(pc = "clicked" /\ pc' \notin {"finally", "dead"}) => pc' = "pacing"]_vars
    /\ [][(pc = "pacing" /\ pc' \notin {"finally", "dead"}) => pc' = "fetching"]_vars

\* a run on a sticky source: one of its two clicks did not move the source,
\* the control was then found missing or disabled and the session was released
C19_Witness ==
    /\ source = "sticky"
    /\ pc = "closed"
    /\ exit = "no_next"
    /\ released = 1
    /\ page = 3
    /\ src_page = 2
\* ---------------------------------------------------------------- C20
\* C20 -- Extraction completeness: while no append of the process has failed
\* with an I/O error, every row that decoded to a record leaves save_record
\* with its business_name in the key set and in a line of the file; keys and
\* lines are kept until the run ends, so that at the end of a run that ended
\* in DONE the key set is the set of names of the file; and of the rows with
\* one name only the first one met is written (a later one changes nothing).
C20_ExtractionCompleteness ==
    /\ [][(pc \in {"saving", "appending", "written"} /\ pc' = "extracting"
            /\ io_failed' = {}) =>
             /\ record.business_name \in scraped_ids'
             /\ record.business_name \in LogNames(log')]_vars
    /\ [][(run' = run /\ pc' # "dead" /\ io_failed' = {}) =>
             /\ scraped_ids \subseteq scraped_ids'
             /\ LogNames(log) \subseteq LogNames(log')]_vars
    /\ []((pc \in {"finally", "closed"} /\ exit \in DoneExits /\ io_failed = {}) =>
             scraped_ids = LogNames(log))
    /\ [][(log' # log /\ io_failed' = {}) =>
             /\ pc = "appending"
             /\ record.business_name \notin LogNames(log)]_vars
    /\ [][(pc = "saving" /\ record.business_name \in scraped_ids
            /\ pc' \notin {"finally", "dead"}) =>
             /\ log' = log
             /\ scraped_ids' = scraped_ids]_vars
====
